---- MODULE Spec2Model ----
(***************************************************************************)
(* A model of the unit algebra and conversion engine of the Quantity       *)
(* library: rational exponents, canonical units (sorted maps from base     *)
(* units to exponents), affine units, referenced and unreferenced          *)
(* logarithmic units, and the double dispatch between the unit kinds for   *)
(* compare, isConvertible, getConverterTo/getConverterFrom and multiply.   *)
(*                                                                         *)
(* A C++ double is modelled by an exact rational [n, d]; an exception by   *)
(* a result record whose err field names the exception type.              *)
(***************************************************************************)
EXTENDS Integers, Sequences, FiniteSets, TLC

VARIABLES x, y, last

vars == <<x, y, last>>

(***************************************************************************)
(* Bounds of the model.                                                    *)
(***************************************************************************)
\* Number of base units (BaseInfo instances) the program has registered.
NumBases == 2
\* Largest |numerator| of an exponent a kept canonical unit may hold.
MaxNumer == 1
\* Largest denominator of an exponent a kept canonical unit may hold.
MaxDenom == 2
\* Largest nesting of affine / referenced logarithmic wrappers.
MaxDepth == 2

\* Largest numerator and denominator of the slope of a kept affine unit.
MaxSlope == 9
\* Largest |numerator| of an Exponent object the program keeps.
MaxExpNumer == 3
\* Largest denominator of an Exponent object the program keeps.
MaxExpDenom == 4

Bases == 1 .. NumBases

(***************************************************************************)
(* Results of operations that may throw.                                   *)
(***************************************************************************)
Ok(v) == [err |-> "none", val |-> <<v>>]

Fail(e) == [err |-> e, val |-> <<>>]

IsOk(r) == r.err = "none"

Val(r) == r.val[1]

(***************************************************************************)
(* Integer helpers of <cstdlib>.                                           *)
(***************************************************************************)
abs(i) == IF i < 0 THEN -i ELSE i

sign(i) == IF i > 0 THEN 1 ELSE IF i < 0 THEN -1 ELSE 0

(***************************************************************************)
(* Exponent: a rational number [numer, denom].                             *)
(***************************************************************************)
RECURSIVE gcdLoop(_, _)
\* The do-while loop of ExponentImpl::gcd; a >= b > 0.
gcdLoop(a, b) ==
    LET rem == a - (a \div b) * b
    IN  IF rem = 0 THEN b ELSE gcdLoop(b, rem)

\* ExponentImpl::gcd
gcd(n1, n2) ==
    LET a0 == abs(n1)
        b0 == abs(n2)
        a  == IF b0 > a0 THEN b0 ELSE a0
        b  == IF b0 > a0 THEN a0 ELSE b0
    IN  IF b = 0 THEN a ELSE gcdLoop(a, b)

\* ExponentImpl::ExponentImpl(n, d) for d # 0 (d = 0 throws invalid_argument)
Exponent(n, d) ==
    LET denom1 == IF d < 0 THEN -d ELSE d
        numer1 == IF d < 0 THEN -n ELSE n
        div    == gcd(numer1, denom1)
    IN  [numer |-> numer1 \div div, denom |-> denom1 \div div]

\* ExponentImpl::multiply(n, d) for d # 0
ExponentMultiply(e, n, d) ==
    LET numer1 == e.numer * n
        denom1 == e.denom * d
        numer2 == IF denom1 < 0 THEN -numer1 ELSE numer1
        denom2 == IF denom1 < 0 THEN -denom1 ELSE denom1
        div    == gcd(numer2, denom2)
    IN  [numer |-> numer2 \div div, denom |-> denom2 \div div]

\* Exponent::multiply(const Exponent& other)
ExponentMultiplyBy(e, other) == ExponentMultiply(e, other.numer, other.denom)

\* A sum left over the product of the denominators
ExponentAddUnreduced(e, other) ==
    [numer |-> e.numer * other.denom + other.numer * e.denom,
     denom |-> e.denom * other.denom]

\* ExponentImpl::add
ExponentAdd(e, other) ==
    LET newNumer == e.numer * other.denom + other.numer * e.denom
        newDenom == e.denom * other.denom
        div      == gcd(newNumer, newDenom)
    IN  [numer |-> newNumer \div div, denom |-> newDenom \div div]

\* Exponent::isZero
isZero(e) == e.numer = 0

\* Exponent::isOne
isOne(e) == e.numer = 1 /\ e.denom = 1

\* The order of the rational values
RationalCompare(e, other) == sign(e.numer * other.denom - other.numer * e.denom)

\* The order of the magnitudes, whatever the signs
MagnitudeCompare(e, other) ==
    sign(abs(e.numer * other.denom) - abs(other.numer * e.denom))

\* ExponentImpl::compare
ExponentCompare(e, other) ==
    LET s1 == sign(e.numer)
        s2 == sign(other.numer)
        n1 == abs(e.numer * other.denom)
        n2 == abs(other.numer * e.denom)
    IN  IF s1 = s2 \/ (s1 >= 0 /\ s2 >= 0)
        THEN IF n1 < n2 THEN -1 ELSE IF n1 = n2 THEN 0 ELSE 1
        ELSE IF s1 < 0 THEN 1 ELSE IF s2 < 0 THEN -1 ELSE 0

(***************************************************************************)
(* Base units.  Base unit b has a symbol of its own; the symbols' string   *)
(* order is the order of the integers.                                     *)
(***************************************************************************)
\* BaseInfoImpl::compare: std::string::compare of the symbols
BaseInfoCompare(b1, b2) == b1 - b2

(***************************************************************************)
(* UnitFactors: std::map<BaseInfo, Exponent, BaseInfoLess>, a sequence of  *)
(* <<base, exponent>> pairs kept in increasing order of base.              *)
(***************************************************************************)
\* std::map::find: the index of the factor of base b, or 0 (end())
FindFactor(fs, b) ==
    IF \E i \in 1 .. Len(fs) : BaseInfoCompare(fs[i][1], b) = 0
    THEN CHOOSE i \in 1 .. Len(fs) : BaseInfoCompare(fs[i][1], b) = 0
    ELSE 0

\* std::map::insert: no effect when the key is present, else ordered insertion
InsertFactor(fs, b, e) ==
    IF FindFactor(fs, b) # 0
    THEN fs
    ELSE LET before == SelectSeq(fs, LAMBDA f : BaseInfoCompare(f[1], b) < 0)
             after  == SelectSeq(fs, LAMBDA f : ~(BaseInfoCompare(f[1], b) < 0))
         IN  before \o <<(<<b, e>>)>> \o after

\* std::map::erase(iterator)
EraseFactor(fs, i) == SubSeq(fs, 1, i - 1) \o SubSeq(fs, i + 1, Len(fs))

\* Assignment through the iterator's Exponent, which shares its implementation
SetFactor(fs, i, e) == [fs EXCEPT ![i] = <<fs[i][1], e>>]

(***************************************************************************)
(* Canonical units.                                                        *)
(***************************************************************************)
\* CanonicalUnit::CanonicalUnit(const UnitFactors&)
CanonicalUnit(fs) == [kind |-> "C", factors |-> fs]

\* Unit::get(const BaseInfo&)
UnitGetBase(b) == CanonicalUnit(<<(<<b, Exponent(1, 1)>>)>>)

\* The first loop of CanonicalUnit::multiplyBy: copies factors fs[i..] into acc
RECURSIVE CopyFactors(_, _, _)
CopyFactors(fs, i, acc) ==
    IF i > Len(fs)
    THEN acc
    ELSE LET thisExp == fs[i][2]
             newExp  == Exponent(thisExp.numer, thisExp.denom)
         IN  CopyFactors(fs, i + 1, InsertFactor(acc, fs[i][1], newExp))

\* The body of the second loop of CanonicalUnit::multiplyBy for one factor
MergeFactor(acc, otherFactor) ==
    LET otherExp == otherFactor[2]
        newIter  == FindFactor(acc, otherFactor[1])
    IN  IF newIter = 0
        THEN InsertFactor(acc, otherFactor[1], Exponent(otherExp.numer, otherExp.denom))
        ELSE LET newExp == ExponentAdd(acc[newIter][2], otherExp)
             IN  IF isZero(newExp)
                 THEN EraseFactor(acc, newIter)
                 ELSE SetFactor(acc, newIter, newExp)

\* The second loop of CanonicalUnit::multiplyBy: folds other's factors into acc
RECURSIVE MergeFactors(_, _, _)
MergeFactors(ofs, i, acc) ==
    IF i > Len(ofs)
    THEN acc
    ELSE MergeFactors(ofs, i + 1, MergeFactor(acc, ofs[i]))

\* CanonicalUnit::multiplyBy(const CanonicalUnit& other)
CanonicalMultiplyBy(self, other) ==
    CanonicalUnit(MergeFactors(other.factors, 1, CopyFactors(self.factors, 1, <<>>)))

\* The loop of CanonicalUnit::pow
RECURSIVE PowFactors(_, _, _, _)
PowFactors(fs, exp, i, acc) ==
    IF i > Len(fs)
    THEN acc
    ELSE LET thisExp == fs[i][2]
             newExp  == Exponent(thisExp.numer, thisExp.denom)
         IN  PowFactors(fs, exp, i + 1,
                        InsertFactor(acc, fs[i][1], ExponentMultiplyBy(newExp, exp)))

\* CanonicalUnit::pow
CanonicalPow(self, exp) == CanonicalUnit(PowFactors(self.factors, exp, 1, <<>>))

\* The loop and the final expression of CanonicalUnit::compareTo(const CanonicalUnit&)
RECURSIVE CompareFactors(_, _, _)
CompareFactors(f1, f2, i) ==
    IF i <= Len(f1) /\ i <= Len(f2)
    THEN LET cmp1 == BaseInfoCompare(f1[i][1], f2[i][1])
             cmp2 == ExponentCompare(f1[i][2], f2[i][2])
         IN  IF cmp1 # 0 THEN cmp1
             ELSE IF cmp2 # 0 THEN cmp2
             ELSE CompareFactors(f1, f2, i + 1)
    ELSE IF i > Len(f1) /\ i > Len(f2) THEN 0
         ELSE IF i > Len(f1) THEN -1 ELSE 1

\* A comparison that stops at the end of the shorter factor list: the order of
\* canonical units must tell it from CanonicalUnit::compareTo
CompareLeadingFactors(self, other) ==
    LET n == IF Len(self.factors) < Len(other.factors)
             THEN Len(self.factors) ELSE Len(other.factors)
    IN  CompareFactors(SubSeq(self.factors, 1, n), SubSeq(other.factors, 1, n), 1)

\* CanonicalUnit::compareTo(const CanonicalUnit& other)
CanonicalCompareTo(self, other) == CompareFactors(self.factors, other.factors, 1)

\* A test that looks at the base units only, not at their exponents:
\* convertibility of canonical units must tell it from isConvertibleTo
HasSameBases(self, other) ==
    /\ Len(self.factors) = Len(other.factors)
    /\ \A i \in 1 .. Len(self.factors) :
            BaseInfoCompare(self.factors[i][1], other.factors[i][1]) = 0

\* CanonicalUnit::isConvertibleTo(const CanonicalUnit& other)
CanonicalIsConvertibleTo(self, other) ==
    IF Len(self.factors) # Len(other.factors)
    THEN FALSE
    ELSE \A i \in 1 .. Len(self.factors) :
            ~(BaseInfoCompare(self.factors[i][1], other.factors[i][1]) # 0
              \/ ExponentCompare(self.factors[i][2], other.factors[i][2]) # 0)

\* CanonicalUnit::isDimensionless
CanonicalIsDimensionless(self) == Len(self.factors) = 0

(***************************************************************************)
(* Numeric values.  A double is a rational [n, d] with d > 0 in lowest     *)
(* terms; the result of exp() or log(), and arithmetic on such a result,   *)
(* is kept as a term [fn, ...].                                            *)
(***************************************************************************)
RECURSIVE RatGcd(_, _)
RatGcd(a, b) == IF b = 0 THEN a ELSE RatGcd(b, a % b)

Rat(n, d) ==
    LET n1 == IF d < 0 THEN -n ELSE n
        d1 == IF d < 0 THEN -d ELSE d
        g  == RatGcd(abs(n1), d1)
    IN  [n |-> n1 \div g, d |-> d1 \div g]

IsRat(v) == "n" \in DOMAIN v

\* double < double
RatLess(a, b) == a.n * b.d < b.n * a.d

\* value - r
NumSub(v, r) ==
    IF IsRat(v) THEN Rat(v.n * r.d - r.n * v.d, v.d * r.d)
    ELSE [fn |-> "sub", arg |-> v, by |-> r]

\* value + r
NumAdd(v, r) ==
    IF IsRat(v) THEN Rat(v.n * r.d + r.n * v.d, v.d * r.d)
    ELSE [fn |-> "add", arg |-> v, by |-> r]

\* r * value
NumMul(r, v) ==
    IF IsRat(v) THEN Rat(r.n * v.n, r.d * v.d)
    ELSE [fn |-> "mul", arg |-> v, by |-> r]

\* value / r, r # 0
NumDiv(v, r) ==
    IF IsRat(v) THEN Rat(v.n * r.d, v.d * r.n)
    ELSE [fn |-> "div", arg |-> v, by |-> r]

\* exp(value)
NumExp(v) == [fn |-> "exp", arg |-> v]

\* log(value)
NumLog(v) == [fn |-> "log", arg |-> v]

(***************************************************************************)
(* Affine and logarithmic units.                                           *)
(***************************************************************************)
\* A constructor of affine units that accepts every slope and intercept
AffineUnitUnchecked(core, slope, intercept) ==
    Ok([kind |-> "A", core |-> core, slope |-> slope, intercept |-> intercept])

\* AffineUnit::AffineUnit
AffineUnit(core, slope, intercept) ==
    IF slope = Rat(0, 1)
    THEN Fail("invalid_argument")
    ELSE IF slope = Rat(1, 1) /\ intercept = Rat(0, 1)
    THEN Fail("invalid_argument")
    ELSE Ok([kind |-> "A", core |-> core, slope |-> slope, intercept |-> intercept])

\* Unit::get(const Pimpl& core, double slope, double intercept)
UnitGetAffine(core, slope, intercept) ==
    IF slope = Rat(1, 1) /\ intercept = Rat(0, 1)
    THEN Ok(core)
    ELSE AffineUnit(core, slope, intercept)

\* LogUnit::LogUnit: the natural logarithm of the base, to three decimals
LogBase(baseEnum) ==
    IF baseEnum = "E" THEN Rat(1, 1)
    ELSE IF baseEnum = "TWO" THEN Rat(693, 1000)
    ELSE Rat(2303, 1000)

\* CanonicalUnit::isOffset, AffineUnit::isOffset, RefLogUnit::isOffset,
\* UnrefLogUnit::isOffset
isOffset(u) ==
    IF u.kind = "A" THEN u.intercept # Rat(0, 1) ELSE FALSE

\* A constructor of referenced logarithmic units that accepts every reference level
RefLogUnitUnchecked(refLevel, baseEnum) ==
    Ok([kind |-> "R", baseEnum |-> baseEnum, logBase |-> LogBase(baseEnum),
        refLevel |-> refLevel])

\* RefLogUnit::RefLogUnit
RefLogUnit(refLevel, baseEnum) ==
    IF isOffset(refLevel)
    THEN Fail("logic_error")
    ELSE Ok([kind |-> "R", baseEnum |-> baseEnum, logBase |-> LogBase(baseEnum),
             refLevel |-> refLevel])

\* UnrefLogUnit::UnrefLogUnit
UnrefLogUnit(baseEnum, dims) ==
    [kind |-> "U", baseEnum |-> baseEnum, logBase |-> LogBase(baseEnum), dims |-> dims]

\* Dimensionality::Impl::Impl(name, symbol, exp): the dimensionality of one dimension
Dimensionality(dim, exp) == IF isZero(exp) THEN <<>> ELSE <<(<<dim, exp>>)>>

\* Dimensionality::Impl::compare: dimension names are ordered as the integers
DimensionalityCompare(d1, d2) == CompareFactors(d1, d2, 1)

(***************************************************************************)
(* Converters: nested function objects.                                    *)
(***************************************************************************)
\* TrivialConverter
TrivialConverter == [conv |-> "Trivial"]

\* AffineUnit::ToConverter::ToConverter
AffineToConverter(coreConverter, slope, intercept) ==
    [conv |-> "AffineTo", inner |-> coreConverter, slope |-> slope,
     intercept |-> intercept]

\* AffineUnit::FromConverter::FromConverter
AffineFromConverter(coreConverter, slope, intercept) ==
    [conv |-> "AffineFrom", inner |-> coreConverter, slope |-> slope,
     intercept |-> intercept]

\* RefLogUnit::ToConverter::ToConverter
RefLogToConverter(refConverter, logBase) ==
    [conv |-> "RefLogTo", inner |-> refConverter, logBase |-> logBase]

\* RefLogUnit::FromConverter::FromConverter
RefLogFromConverter(refConverter, logBase) ==
    [conv |-> "RefLogFrom", inner |-> refConverter, logBase |-> logBase]

\* UnrefLogUnit::FromConverter::FromConverter
UnrefLogFromConverter(inputLogBase, outputLogBase) ==
    [conv |-> "UnrefLogFrom", inputLogBase |-> inputLogBase,
     outputLogBase |-> outputLogBase]

RECURSIVE convert(_, _)
\* A conversion towards the core that scales and shifts instead of inverting:
\* the direction of the affine converters must tell it from ToConverter
AffineToApplyScaling(c, value) ==
    convert(c.inner, NumAdd(NumMul(c.slope, value), c.intercept))

\* A conversion from the core that forgets the intercept
AffineFromApplyNoIntercept(c, value) == NumMul(c.slope, convert(c.inner, value))

\* TrivialConverter::operator()
TrivialApply(c, value) == value

\* AffineUnit::ToConverter::operator()
AffineToApply(c, value) ==
    convert(c.inner, NumDiv(NumSub(value, c.intercept), c.slope))

\* AffineUnit::FromConverter::operator()
AffineFromApply(c, value) ==
    NumAdd(NumMul(c.slope, convert(c.inner, value)), c.intercept)

\* RefLogUnit::ToConverter::operator()
RefLogToApply(c, value) == convert(c.inner, NumExp(NumMul(c.logBase, value)))

\* RefLogUnit::FromConverter::operator()
RefLogFromApply(c, value) == NumDiv(NumLog(convert(c.inner, value)), c.logBase)

\* UnrefLogUnit::FromConverter::operator()
UnrefLogFromApply(c, value) ==
    NumMul(NumDiv(c.inputLogBase, c.outputLogBase), value)

\* Converter::convert: the virtual call of ConverterImpl::operator()
convert(c, value) ==
    CASE c.conv = "Trivial"      -> TrivialApply(c, value)
      [] c.conv = "AffineTo"     -> AffineToApply(c, value)
      [] c.conv = "AffineFrom"   -> AffineFromApply(c, value)
      [] c.conv = "RefLogTo"     -> RefLogToApply(c, value)
      [] c.conv = "RefLogFrom"   -> RefLogFromApply(c, value)
      [] c.conv = "UnrefLogFrom" -> UnrefLogFromApply(c, value)

(***************************************************************************)
(* Double dispatch between the unit kinds.  The operators declared here    *)
(* are the virtual member functions of Unit; each class's override follows.*)
(***************************************************************************)
RECURSIVE compare(_, _), compareTo(_, _)
RECURSIVE isConvertible(_, _), isConvertibleTo(_, _)
RECURSIVE getConverterTo(_, _), getConverterFrom(_, _)
RECURSIVE multiply(_, _), multiplyBy(_, _), pow(_, _)

\* double comparison as -1, 0, 1
RatCompare(a, b) == IF RatLess(a, b) THEN -1 ELSE IF RatLess(b, a) THEN 1 ELSE 0

\* A canonical unit that puts itself after the units of the other kinds
CanonicalCompareToAsLast(self, other) ==
    IF other.kind = "C" THEN CanonicalCompareTo(self, other) ELSE 1

\* CanonicalUnit::compareTo, all overloads
CanonicalUnitCompareTo(self, other) ==
    IF other.kind = "C" THEN CanonicalCompareTo(self, other) ELSE -1

\* AffineUnit::compareTo(const UnrefLogUnit&): affine units precede log units
AffineCompareToUnrefLog(self, other) == -1

\* AffineUnit::compareTo, all overloads
AffineUnitCompareTo(self, other) ==
    CASE other.kind = "C" -> 1
      [] other.kind = "A" ->
            LET cmp1 == compare(self.core, other.core)
                cmp2 == RatCompare(self.slope, other.slope)
            IN  IF cmp1 # 0 THEN cmp1
                ELSE IF cmp2 # 0 THEN cmp2
                ELSE RatCompare(self.intercept, other.intercept)
      [] other.kind = "R" -> -1
      [] other.kind = "U" -> AffineCompareToUnrefLog(self, other)

\* RefLogUnit::compareTo(const RefLogUnit& other)
RefLogCompareToRefLog(self, other) ==
    LET cmp == compareTo(self.refLevel, other)
    IN  IF cmp = 0 THEN RatCompare(self.logBase, other.logBase) ELSE cmp

\* RefLogUnit::compareTo, all overloads
RefLogUnitCompareTo(self, other) ==
    CASE other.kind = "C" -> 1
      [] other.kind = "A" -> 1
      [] other.kind = "R" -> RefLogCompareToRefLog(self, other)
      [] other.kind = "U" -> -1

\* UnrefLogUnit::compareTo, all overloads
UnrefLogUnitCompareTo(self, other) ==
    CASE other.kind = "C" -> 1
      [] other.kind = "A" -> 1
      [] other.kind = "R" -> 1
      [] other.kind = "U" ->
            IF RatLess(self.logBase, other.logBase) THEN -1
            ELSE IF RatLess(other.logBase, self.logBase) THEN 1
            ELSE DimensionalityCompare(self.dims, other.dims)

\* Unit::compareTo (virtual)
compareTo(self, other) ==
    CASE self.kind = "C" -> CanonicalUnitCompareTo(self, other)
      [] self.kind = "A" -> AffineUnitCompareTo(self, other)
      [] self.kind = "R" -> RefLogUnitCompareTo(self, other)
      [] self.kind = "U" -> UnrefLogUnitCompareTo(self, other)

\* CanonicalUnit::compare, AffineUnit::compare, RefLogUnit::compare,
\* UnrefLogUnit::compare
compare(self, other) == -compareTo(other, self)

\* CanonicalUnit::isConvertibleTo, all overloads
CanonicalUnitIsConvertibleTo(self, other) ==
    IF other.kind = "C"
    THEN Ok(CanonicalIsConvertibleTo(self, other))
    ELSE isConvertibleTo(other, self)

\* AffineUnit::isConvertibleTo(const UnrefLogUnit&): defers to the other unit
AffineIsConvertibleToUnrefLog(self, other) == isConvertibleTo(other, self)

\* AffineUnit::isConvertibleTo, all overloads
AffineUnitIsConvertibleTo(self, other) ==
    CASE other.kind = "C" -> isConvertibleTo(self.core, other)
      [] other.kind = "A" -> isConvertible(self.core, other.core)
      [] other.kind = "R" -> isConvertibleTo(other, self)
      [] other.kind = "U" -> AffineIsConvertibleToUnrefLog(self, other)

\* RefLogUnit::isConvertibleTo, all overloads
RefLogUnitIsConvertibleTo(self, other) ==
    CASE other.kind = "C" -> isConvertibleTo(self.refLevel, other)
      [] other.kind = "A" -> isConvertibleTo(self.refLevel, other)
      [] other.kind = "R" -> isConvertible(self.refLevel, other.refLevel)
      [] other.kind = "U" -> Fail("logic_error")

\* UnrefLogUnit::isConvertibleTo, all overloads
UnrefLogUnitIsConvertibleTo(self, other) == Ok(other.kind = "U")

\* Unit::isConvertibleTo (virtual)
isConvertibleTo(self, other) ==
    CASE self.kind = "C" -> CanonicalUnitIsConvertibleTo(self, other)
      [] self.kind = "A" -> AffineUnitIsConvertibleTo(self, other)
      [] self.kind = "R" -> RefLogUnitIsConvertibleTo(self, other)
      [] self.kind = "U" -> UnrefLogUnitIsConvertibleTo(self, other)

\* A referenced logarithmic unit that is convertible with nothing
RefLogNeverConvertible(self, other) == Ok(FALSE)

\* RefLogUnit::isConvertible
RefLogUnitIsConvertible(self, other) == isConvertible(self.refLevel, other)

\* CanonicalUnit::isConvertible, AffineUnit::isConvertible,
\* UnrefLogUnit::isConvertible
OtherIsConvertibleTo(self, other) == isConvertibleTo(other, self)

\* Unit::isConvertible (virtual)
isConvertible(self, other) ==
    IF self.kind = "R"
    THEN RefLogUnitIsConvertible(self, other)
    ELSE OtherIsConvertibleTo(self, other)

\* if (!convertible) throw invalid_argument(...); then the request for the inner
\* converter, where the test or the request may itself throw
Guarded(convertible, inner) ==
    IF ~IsOk(convertible) THEN Fail(convertible.err)
    ELSE IF ~Val(convertible) THEN Fail("invalid_argument")
    ELSE inner

\* CanonicalUnit::getConverterFrom, all overloads
CanonicalUnitGetConverterFrom(self, input) ==
    IF input.kind = "C"
    THEN IF ~CanonicalIsConvertibleTo(self, input)
         THEN Fail("invalid_argument")
         ELSE Ok(TrivialConverter)
    ELSE Fail("logic_error")

\* AffineUnit::getConverterFrom(const CanonicalUnit&), (const AffineUnit&),
\* (const RefLogUnit&)
AffineGetConverterFrom(self, input) ==
    LET c == Guarded(isConvertibleTo(self, input), getConverterFrom(self.core, input))
    IN  IF IsOk(c) THEN Ok(AffineFromConverter(Val(c), self.slope, self.intercept)) ELSE c

\* AffineUnit::getConverterFrom(const UnrefLogUnit&): as the other overloads
AffineGetConverterFromUnrefLog(self, input) == AffineGetConverterFrom(self, input)

\* AffineUnit::getConverterFrom, all overloads
AffineUnitGetConverterFrom(self, input) ==
    IF input.kind = "U"
    THEN AffineGetConverterFromUnrefLog(self, input)
    ELSE AffineGetConverterFrom(self, input)

\* RefLogUnit::getConverterFrom, all overloads
RefLogUnitGetConverterFrom(self, input) ==
    IF input.kind = "U"
    THEN Fail("invalid_argument")
    ELSE LET c == Guarded(isConvertibleTo(input, self),
                          getConverterTo(input, self.refLevel))
         IN  IF IsOk(c) THEN Ok(RefLogFromConverter(Val(c), self.logBase)) ELSE c

\* UnrefLogUnit::getConverterFrom, all overloads
UnrefLogUnitGetConverterFrom(self, input) ==
    IF input.kind = "U"
    THEN Ok(UnrefLogFromConverter(input.logBase, self.logBase))
    ELSE Fail("invalid_argument")

\* Unit::getConverterFrom (virtual)
getConverterFrom(self, input) ==
    CASE self.kind = "C" -> CanonicalUnitGetConverterFrom(self, input)
      [] self.kind = "A" -> AffineUnitGetConverterFrom(self, input)
      [] self.kind = "R" -> RefLogUnitGetConverterFrom(self, input)
      [] self.kind = "U" -> UnrefLogUnitGetConverterFrom(self, input)

\* CanonicalUnit::getConverterTo, UnrefLogUnit::getConverterTo
OutputGetConverterFrom(self, output) == getConverterFrom(output, self)

\* AffineUnit::getConverterTo
AffineUnitGetConverterTo(self, output) ==
    LET c == Guarded(isConvertible(self, output), getConverterTo(self.core, output))
    IN  IF IsOk(c) THEN Ok(AffineToConverter(Val(c), self.slope, self.intercept)) ELSE c

\* RefLogUnit::getConverterTo
RefLogUnitGetConverterTo(self, output) ==
    LET c == getConverterTo(self.refLevel, output)
    IN  IF IsOk(c) THEN Ok(RefLogToConverter(Val(c), self.logBase)) ELSE c

\* Unit::getConverterTo (virtual)
getConverterTo(self, output) ==
    CASE self.kind = "C" -> OutputGetConverterFrom(self, output)
      [] self.kind = "A" -> AffineUnitGetConverterTo(self, output)
      [] self.kind = "R" -> RefLogUnitGetConverterTo(self, output)
      [] self.kind = "U" -> OutputGetConverterFrom(self, output)

\* CanonicalUnit::multiplyBy, both overloads
CanonicalUnitMultiplyBy(self, other) ==
    IF other.kind = "C"
    THEN Ok(CanonicalMultiplyBy(self, other))
    ELSE multiplyBy(other, self)

\* return get(product, slope, 0), where forming the product may throw
Rewrap(product, slope) ==
    IF ~IsOk(product) THEN Fail(product.err)
    ELSE UnitGetAffine(Val(product), slope, Rat(0, 1))

\* A multiplication of affine units that does not look at the intercepts
AffineMultiplyByAnyIntercept(self, other) ==
    IF other.kind = "C"
    THEN Rewrap(multiplyBy(self.core, other), self.slope)
    ELSE Rewrap(multiply(self.core, other.core), NumMul(self.slope, other.slope))

\* AffineUnit::multiplyBy, both overloads
AffineUnitMultiplyBy(self, other) ==
    IF other.kind = "C"
    THEN IF self.intercept # Rat(0, 1)
         THEN Fail("logic_error")
         ELSE Rewrap(multiplyBy(self.core, other), self.slope)
    ELSE IF self.intercept # Rat(0, 1) \/ other.intercept # Rat(0, 1)
         THEN Fail("logic_error")
         ELSE Rewrap(multiply(self.core, other.core), NumMul(self.slope, other.slope))

\* LogUnit::multiplyBy, both overloads
LogUnitMultiplyBy(self, other) == Fail("logic_error")

\* Unit::multiplyBy (virtual)
multiplyBy(self, other) ==
    CASE self.kind = "C" -> CanonicalUnitMultiplyBy(self, other)
      [] self.kind = "A" -> AffineUnitMultiplyBy(self, other)
      [] self.kind \in {"R", "U"} -> LogUnitMultiplyBy(self, other)

\* CanonicalUnit::multiply, AffineUnit::multiply
OtherMultiplyBy(self, other) == multiplyBy(other, self)

\* LogUnit::multiply
LogUnitMultiply(self, other) == Fail("logic_error")

\* Unit::multiply (virtual)
multiply(self, other) ==
    IF self.kind \in {"R", "U"}
    THEN LogUnitMultiply(self, other)
    ELSE OtherMultiplyBy(self, other)

RECURSIVE RatPow(_, _)
\* std::pow(value, n) for a non-negative integer n
RatPow(r, n) == IF n = 0 THEN Rat(1, 1) ELSE NumMul(r, RatPow(r, n - 1))

\* Exponent::exponentiate(value): std::pow(value, numer/denom), a root being
\* left as a term
exponentiate(exp, value) ==
    IF exp.denom # 1
    THEN [fn |-> "pow", arg |-> value, by |-> exp]
    ELSE IF exp.numer >= 0
    THEN RatPow(value, exp.numer)
    ELSE RatPow(NumDiv(Rat(1, 1), value), -exp.numer)

\* AffineUnit::pow
AffineUnitPow(self, exp) ==
    IF self.intercept # Rat(0, 1)
    THEN Fail("logic_error")
    ELSE Rewrap(pow(self.core, exp), exponentiate(exp, self.slope))

\* LogUnit::pow
LogUnitPow(self, exp) == Fail("logic_error")

\* Unit::pow (virtual)
pow(self, exp) ==
    CASE self.kind = "C" -> Ok(CanonicalPow(self, exp))
      [] self.kind = "A" -> AffineUnitPow(self, exp)
      [] self.kind \in {"R", "U"} -> LogUnitPow(self, exp)

\* Unit::divideBy
divideBy(self, unit) ==
    LET inverse == pow(unit, Exponent(-1, 1))
    IN  IF ~IsOk(inverse) THEN Fail(inverse.err) ELSE multiply(self, Val(inverse))

(***************************************************************************)
(* The client program: two unit variables x and y, and the record `last`   *)
(* of the most recent call, its operands and its outcome.                  *)
(***************************************************************************)
NoCall == [op |-> "none", err |-> "none", val |-> <<>>, arg |-> <<>>]

Call(op, arg, r) == [op |-> op, err |-> r.err, val |-> r.val, arg |-> arg]

\* Exponents passed to pow
PowExps == {Exponent(-1, 1), Exponent(0, 1), Exponent(2, 1), Exponent(1, 2)}

\* Values passed to Converter::convert
Values == {Rat(0, 1), Rat(1, 1), Rat(5, 1), Rat(8, 1)}

RECURSIVE Depth(_)
\* Nesting of wrappers around the innermost unit
Depth(u) ==
    CASE u.kind = "A" -> 1 + Depth(u.core)
      [] u.kind = "R" -> 1 + Depth(u.refLevel)
      [] OTHER -> 0

RECURSIVE WithinBounds(_)
\* The unit is one the model keeps
WithinBounds(u) ==
    CASE u.kind = "C" ->
            \A i \in 1 .. Len(u.factors) :
                /\ abs(u.factors[i][2].numer) <= MaxNumer
                /\ u.factors[i][2].denom <= MaxDenom
      [] u.kind = "A" ->
            /\ Depth(u) <= MaxDepth
            /\ IsRat(u.slope) /\ abs(u.slope.n) <= MaxSlope /\ u.slope.d <= MaxSlope
            /\ WithinBounds(u.core)
      [] u.kind = "R" -> Depth(u) <= MaxDepth /\ WithinBounds(u.refLevel)
      [] OTHER -> TRUE

Kept(r) == IsOk(r) => WithinBounds(Val(r))

\* No result of an earlier call is held
Idle == last.op = "none"

\* x = Unit::get(baseInfo)
GetBase ==
    /\ Idle
    /\ \E b \in Bases : x' = UnitGetBase(b)
    /\ UNCHANGED <<y, last>>

\* std::swap(x, y)
Swap ==
    /\ Idle
    /\ x' = y
    /\ y' = x
    /\ UNCHANGED last

\* x->multiply(y); the product is held in `last`
Multiply ==
    /\ Idle
    /\ Kept(multiply(x, y))
    /\ last' = Call("multiply", <<x, y>>, multiply(x, y))
    /\ UNCHANGED <<x, y>>

\* x->divideBy(y)
DivideBy ==
    /\ Idle
    /\ Kept(divideBy(x, y))
    /\ last' = Call("divideBy", <<x, y>>, divideBy(x, y))
    /\ UNCHANGED <<x, y>>

\* x->pow(exp)
Pow ==
    /\ Idle
    /\ \E exp \in PowExps :
        /\ Kept(pow(x, exp))
        /\ last' = Call("pow", <<x, exp>>, pow(x, exp))
    /\ UNCHANGED <<x, y>>

\* x = result, for the unit the last call returned
Assign ==
    /\ last.op \in {"multiply", "divideBy", "pow"}
    /\ IsOk(last)
    /\ x' = Val(last)
    /\ last' = NoCall
    /\ UNCHANGED y

\* The result of the last call goes out of scope
Discard ==
    /\ ~Idle
    /\ last' = NoCall
    /\ UNCHANGED <<x, y>>

\* x->compare(y)
Compare ==
    /\ Idle
    /\ last' = Call("compare", <<x, y>>, Ok(compare(x, y)))
    /\ UNCHANGED <<x, y>>

\* x->isConvertible(y)
IsConvertible ==
    /\ Idle
    /\ last' = Call("isConvertible", <<x, y>>, isConvertible(x, y))
    /\ UNCHANGED <<x, y>>

\* x->getConverterTo(y)
GetConverterTo ==
    /\ Idle
    /\ last' = Call("getConverterTo", <<x, y>>, getConverterTo(x, y))
    /\ UNCHANGED <<x, y>>

\* x->getConverterFrom(y)
GetConverterFrom ==
    /\ Idle
    /\ last' = Call("getConverterFrom", <<x, y>>, getConverterFrom(x, y))
    /\ UNCHANGED <<x, y>>

\* converter.convert(value), for the converter the last call returned
Convert ==
    /\ last.op \in {"getConverterTo", "getConverterFrom"}
    /\ IsOk(last)
    /\ \E value \in Values :
        last' = Call("convert", <<last.op, last.arg[1], last.arg[2], Val(last), value>>,
                     Ok(convert(Val(last), value)))
    /\ UNCHANGED <<x, y>>

Init ==
    /\ x \in {UnitGetBase(b) : b \in Bases}
    /\ y \in {UnitGetBase(b) : b \in Bases}
    /\ last = NoCall

(***************************************************************************)
(* The algebra of canonical units.                                         *)
(***************************************************************************)
NextCanonical ==
    \/ GetBase
    \/ Swap
    \/ Multiply
    \/ DivideBy
    \/ Pow
    \/ Assign
    \/ Discard
    \/ Compare
    \/ IsConvertible
    \/ GetConverterTo
    \/ Convert

SpecCanonical == Init /\ [][NextCanonical]_vars

(***************************************************************************)
(* Comparison and conversion between units of all kinds.                   *)
(***************************************************************************)
\* Slopes and intercepts passed to Unit::get(core, slope, intercept)
Slopes == {Rat(0, 1), Rat(1, 1), Rat(3, 1)}

Intercepts == {Rat(0, 1), Rat(5, 1)}

\* Logarithmic bases passed to the constructors of logarithmic units
LogBases == {"TWO", "TEN"}

\* Dimensionalities passed to UnrefLogUnit: that of the first base unit
Dims == {Dimensionality(1, Exponent(1, 1))}

\* The outcome of a constructor call: the new unit goes to x, a failure to `last`
Construct(op, r) ==
    /\ Idle
    /\ Kept(r)
    /\ IF IsOk(r)
       THEN x' = Val(r) /\ UNCHANGED <<y, last>>
       ELSE last' = Call(op, <<>>, r) /\ UNCHANGED <<x, y>>

\* Unit::get(core, slope, intercept) for core x or y
GetAffine ==
    \E core \in {x, y}, slope \in Slopes, intercept \in Intercepts :
        Construct("getAffine", UnitGetAffine(core, slope, intercept))

\* Unit::get(base, refLevel) for refLevel x or y
GetRefLog ==
    \E refLevel \in {x, y}, baseEnum \in LogBases :
        Construct("getRefLog", RefLogUnit(refLevel, baseEnum))

\* Unit::get(base, dimensionality)
GetUnrefLog ==
    \E baseEnum \in LogBases, dims \in Dims :
        Construct("getUnrefLog", Ok(UnrefLogUnit(baseEnum, dims)))

Next ==
    \/ GetBase
    \/ Swap
    \/ Discard
    \/ GetAffine
    \/ GetRefLog
    \/ GetUnrefLog
    \/ Compare
    \/ IsConvertible
    \/ GetConverterTo
    \/ GetConverterFrom
    \/ Convert

Spec == Init /\ [][Next]_vars

(***************************************************************************)
(* The algebra of affine and logarithmic units on the first base unit.     *)
(* The wrappers are built on canonical units; wrappers on wrappers are     *)
(* the matter of the specification above.                                  *)
(***************************************************************************)
\* Slopes passed to Unit::get(core, slope, intercept)
AlgebraSlopes == Slopes \cup {Rat(1, 3)}

\* x = Unit::get(baseInfo) for the first base unit
GetFirstBase ==
    /\ Idle
    /\ x' = UnitGetBase(1)
    /\ UNCHANGED <<y, last>>

\* Unit::get(core, slope, intercept) for a canonical core x or y
GetAffineOnCanonical ==
    \E core \in {x, y}, slope \in AlgebraSlopes, intercept \in Intercepts :
        /\ core.kind = "C"
        /\ Construct("getAffine", UnitGetAffine(core, slope, intercept))

\* Unit::get(base, refLevel) for a canonical refLevel x or y
GetRefLogOnCanonical ==
    \E refLevel \in {x, y}, baseEnum \in LogBases :
        /\ refLevel.kind = "C"
        /\ Construct("getRefLog", RefLogUnit(refLevel, baseEnum))

InitAlgebra ==
    /\ x = UnitGetBase(1)
    /\ y = UnitGetBase(1)
    /\ last = NoCall

NextAlgebra ==
    \/ GetFirstBase
    \/ Swap
    \/ GetAffineOnCanonical
    \/ GetRefLogOnCanonical
    \/ GetUnrefLog
    \/ Multiply
    \/ DivideBy
    \/ Pow
    \/ Assign
    \/ Discard

SpecAlgebra == InitAlgebra /\ [][NextAlgebra]_vars

(***************************************************************************)
(* Exponent objects.  An Exponent is a handle (a shared_ptr) on an         *)
(* ExponentImpl; copying an Exponent copies the handle.  In this           *)
(* specification x is the store of ExponentImpl objects and y gives the    *)
(* ExponentImpl each Exponent variable of the client points to.            *)
(***************************************************************************)
\* The Exponent variables of the client
Handles == {"a", "b"}

\* The places of the store: one for each variable suffices
Impls == 1 .. Cardinality(Handles)

\* Integers passed to Exponent(numer, denom)
Numers == (0 - MaxExpNumer) .. MaxExpNumer

Denoms == (0 - MaxExpDenom) .. MaxExpDenom

\* Integers passed to Exponent::multiply(numer, denom)
MulNumers == (0 - MaxNumer) .. MaxNumer

MulDenoms == (0 - MaxDenom) .. MaxDenom

\* A place of the store that holds no object
Freed == [numer |-> 0, denom |-> 0]

\* ExponentImpl::ExponentImpl(numer, denom)
NewExponentImpl(n, d) ==
    IF d = 0 THEN Fail("invalid_argument") ELSE Ok(Exponent(n, d))

\* ExponentImpl::multiply(n, d)
ExponentImplMultiply(e, n, d) ==
    IF d = 0 THEN Fail("domain_error") ELSE Ok(ExponentMultiply(e, n, d))

\* The object stays as it was
KeepImpl(impls, i, e) == impls

\* The assignments to numer and denom of ExponentImpl::multiply and
\* ExponentImpl::add: the object is changed where it is
AssignImpl(impls, i, e) == [impls EXCEPT ![i] = e]

\* shared_ptr: an ExponentImpl no Exponent points to is deleted
Release(impls, handles) ==
    [i \in Impls |-> IF \E h \in Handles : handles[h] = i THEN impls[i] ELSE Freed]

\* The place a new ExponentImpl gets once variable h has let go of its own
NewImpl(handles, h) ==
    CHOOSE i \in Impls :
        /\ \A g \in Handles \ {h} : handles[g] # i
        /\ \A j \in 1 .. (i - 1) : \E g \in Handles \ {h} : handles[g] = j

\* The Exponent is one the model keeps
KeptExponent(e) == abs(e.numer) <= MaxExpNumer /\ e.denom <= MaxExpDenom

\* h = Exponent(n, d)
NewExponent ==
    /\ Idle
    /\ \E h \in Handles, n \in Numers, d \in Denoms :
        LET r == NewExponentImpl(n, d)
            i == NewImpl(y, h)
        IN  IF IsOk(r)
            THEN /\ y' = [y EXCEPT ![h] = i]
                 /\ x' = Release(AssignImpl(x, i, Val(r)), y')
                 /\ UNCHANGED last
            ELSE /\ last' = Call("Exponent", <<h, n, d, x, y>>, r)
                 /\ UNCHANGED <<x, y>>

\* h2 = h1: the copy constructor and the assignment of Exponent
CopyExponent ==
    /\ Idle
    /\ \E h1 \in Handles :
        \E h2 \in Handles \ {h1} :
        /\ y' = [y EXCEPT ![h2] = y[h1]]
        /\ x' = Release(x, y')
    /\ UNCHANGED last

\* h1.add(h2); the Exponent returned is recorded by the ExponentImpl it points to
AddExponent ==
    /\ Idle
    /\ \E h1 \in Handles, h2 \in Handles :
        LET sum == ExponentAdd(x[y[h1]], x[y[h2]])
        IN  /\ KeptExponent(sum)
            /\ x' = AssignImpl(x, y[h1], sum)
            /\ last' = Call("add", <<h1, h2, x, y>>, Ok(y[h1]))
    /\ UNCHANGED y

\* h.multiply(n, d)
MultiplyExponent ==
    /\ Idle
    /\ \E h \in Handles, n \in MulNumers, d \in MulDenoms :
        LET r == ExponentImplMultiply(x[y[h]], n, d)
        IN  IF IsOk(r)
            THEN /\ KeptExponent(Val(r))
                 /\ x' = AssignImpl(x, y[h], Val(r))
                 /\ last' = Call("multiply", <<h, <<n, d>>, x, y>>, Ok(y[h]))
            ELSE /\ last' = Call("multiply", <<h, <<n, d>>, x, y>>, r)
                 /\ UNCHANGED x
    /\ UNCHANGED y

\* h1.compare(h2)
CompareExponents ==
    /\ Idle
    /\ \E h1 \in Handles, h2 \in Handles :
        last' = Call("compare", <<h1, h2, x, y>>,
                     Ok(ExponentCompare(x[y[h1]], x[y[h2]])))
    /\ UNCHANGED <<x, y>>

\* Exponent a, b: Exponent(int numer = 1, int denom = 1)
InitExponent ==
    /\ x = [i \in Impls |-> Exponent(1, 1)]
    /\ y = [h \in Handles |-> IF h = "a" THEN 1 ELSE Cardinality(Handles)]
    /\ last = NoCall

NextExponent ==
    \/ NewExponent
    \/ CopyExponent
    \/ AddExponent
    \/ MultiplyExponent
    \/ CompareExponents
    \/ Discard

SpecExponent == InitExponent /\ [][NextExponent]_vars

(***************************************************************************)
(* Properties.  The operands and the outcome of the most recent call are   *)
(* read from `last`.                                                       *)
(***************************************************************************)
\* The units of the last call
Receiver == last.arg[1]

Argument == last.arg[2]

\* The operands and the input of a conversion
ConvertOp == last.arg[1]

InputUnit == last.arg[2]

OutputUnit == last.arg[3]

InputValue == last.arg[5]

\* The units the program holds: x, y and a unit returned by the last call
HeldUnits ==
    {x, y} \cup (IF last.op \in {"multiply", "divideBy", "pow"} /\ IsOk(last)
                 THEN {Val(last)} ELSE {})

NoZeroExponent(u) == \A i \in 1 .. Len(u.factors) : ~isZero(u.factors[i][2])

\* The exponent of base unit b in canonical unit u; zero when b is absent
ExponentOf(u, b) ==
    IF FindFactor(u.factors, b) = 0
    THEN Exponent(0, 1)
    ELSE u.factors[FindFactor(u.factors, b)][2]

\* The dimensionless unit one
One == CanonicalUnit(<<>>)

IsStrictPrefix(f1, f2) == Len(f1) < Len(f2) /\ SubSeq(f2, 1, Len(f1)) = f1

\* The exponents a kept canonical unit may hold
KeptExponents ==
    {Exponent(n, d) : n \in (0 - MaxNumer) .. MaxNumer, d \in 1 .. MaxDenom}

RECURSIVE FactorLists(_)
\* The sorted factor lists over the base units b .. NumBases
FactorLists(b) ==
    IF b > NumBases
    THEN {<<>>}
    ELSE LET rest == FactorLists(b + 1)
         IN  rest \cup {<<(<<b, e>>)>> \o r : e \in KeptExponents, r \in rest}

\* Every canonical unit over the pool of base units, within the bounds
CanonicalUnits == {CanonicalUnit(fs) : fs \in FactorLists(1)}

RECURSIVE AffineChain(_)
\* A canonical unit under zero or more affine wrappers
AffineChain(u) ==
    CASE u.kind = "C" -> TRUE
      [] u.kind = "A" -> AffineChain(u.core)
      [] OTHER -> FALSE

\* C1: after any sequence of constructions, multiply, divideBy and pow, no
\* canonical unit holds a factor whose exponent is zero, and u.pow(Exponent(0))
\* is the dimensionless unit for every canonical unit u.
C1_NoZeroExponentFactor ==
    /\ \A u \in HeldUnits : NoZeroExponent(u)
    /\ (last.op = "pow" /\ isZero(Argument)) =>
            (IsOk(last) /\ CanonicalIsDimensionless(Val(last)))

\* C2: for canonical units u and v, u.multiply(v) has for each base unit the
\* sum of its exponents in u and v (absent = 0) and holds no zero-sum factor;
\* u.multiply(one) equals u; u.multiply(v) is convertible to and compares
\* equal to v.multiply(u); u.divideBy(u) is dimensionless.
C2_MultiplyAddsExponents ==
    /\ last.op = "multiply" =>
        /\ IsOk(last)
        /\ \A b \in Bases :
              ExponentOf(Val(last), b)
                  = ExponentAdd(ExponentOf(Receiver, b), ExponentOf(Argument, b))
        /\ NoZeroExponent(Val(last))
        /\ multiply(Receiver, One) = Ok(Receiver)
        /\ isConvertible(Val(last), Val(multiply(Argument, Receiver))) = Ok(TRUE)
        /\ compare(Val(last), Val(multiply(Argument, Receiver))) = 0
    /\ (last.op = "divideBy" /\ Receiver = Argument) =>
        (IsOk(last) /\ CanonicalIsDimensionless(Val(last)))

\* C3: for units a and b of any kinds, a.compare(b) = -b.compare(a) and
\* a.compare(a) = 0; a referenced logarithmic unit compared with itself or
\* with an identical one yields 0.
C3_CompareAntisymmetric ==
    last.op = "compare" =>
        /\ Val(last) = 0 - compare(Argument, Receiver)
        /\ compare(Receiver, Receiver) = 0
        /\ (Receiver = Argument) => (Val(last) = 0)

\* C4: on canonical units built from one pool of base units, compare is a
\* strict total order: antisymmetric, transitive, zero exactly for identical
\* factor maps, and a unit whose factor list is a strict prefix of another's
\* compares less.
C4_CanonicalCompareTotalOrder ==
    last.op = "compare" =>
        /\ Val(last) = 0 - compare(Argument, Receiver)
        /\ compare(Receiver, Receiver) = 0
        /\ (Val(last) = 0) <=> (Receiver.factors = Argument.factors)
        /\ IsStrictPrefix(Receiver.factors, Argument.factors) => (Val(last) < 0)
        /\ IsStrictPrefix(Argument.factors, Receiver.factors) => (Val(last) > 0)
        /\ (Val(last) < 0) =>
              \A w \in CanonicalUnits :
                  (compare(Argument, w) < 0) => (compare(Receiver, w) < 0)

\* A unit with one factor was compared with a unit that extends its factor list
C4_PrefixCompared ==
    /\ last.op = "compare"
    /\ Len(Receiver.factors) = 1
    /\ IsStrictPrefix(Receiver.factors, Argument.factors)
    /\ Val(last) < 0

\* C5: two canonical units are convertible (isConvertible and isConvertibleTo,
\* in both call orders) exactly when their factor maps are identical,
\* exponents included; the converter getConverterTo then returns is the
\* identity function.
C5_CanonicalConvertibleIffIdentical ==
    /\ last.op = "isConvertible" =>
        LET same == Ok(Receiver.factors = Argument.factors)
        IN  /\ [err |-> last.err, val |-> last.val] = same
            /\ isConvertible(Argument, Receiver) = same
            /\ isConvertibleTo(Receiver, Argument) = same
            /\ isConvertibleTo(Argument, Receiver) = same
    /\ last.op = "getConverterTo" =>
        (IsOk(last) <=> (Receiver.factors = Argument.factors))
    /\ (last.op = "getConverterTo" /\ IsOk(last)) =>
        \A value \in Values : convert(Val(last), value) = value
    /\ last.op = "convert" => (Val(last) = InputValue)

\* A value went through the converter between two equal units of two factors
C5_IdentityConverted ==
    /\ last.op = "convert"
    /\ Len(InputUnit.factors) = 2
    /\ InputUnit.factors = OutputUnit.factors
    /\ InputValue = Rat(5, 1)
    /\ Val(last) = Rat(5, 1)

\* C6: for every ordered pair (u, v) of units that are not convertible,
\* u.getConverterTo(v) fails with invalid_argument; a converter is obtained
\* only for convertible pairs.
C6_NotConvertibleIsInvalidArgument ==
    last.op = "getConverterTo" =>
        /\ (isConvertible(Receiver, Argument) = Ok(FALSE)) =>
                (last.err = "invalid_argument")
        /\ IsOk(last) => (isConvertible(Receiver, Argument) = Ok(TRUE))

\* C7: for units u and v with u.isConvertible(v) true, u.getConverterTo(v)
\* and v.getConverterTo(u) both succeed, and for chains of canonical and
\* affine units converting u-to-v and then v-to-u returns the original value.
C7_ConvertibleRoundTrip ==
    /\ (last.op = "isConvertible" /\ IsOk(last) /\ Val(last)) =>
        /\ IsOk(getConverterTo(Receiver, Argument))
        /\ IsOk(getConverterTo(Argument, Receiver))
    /\ (/\ last.op = "convert"
        /\ ConvertOp = "getConverterTo"
        /\ isConvertible(InputUnit, OutputUnit) = Ok(TRUE)
        /\ AffineChain(InputUnit)
        /\ AffineChain(OutputUnit)) =>
        /\ IsOk(getConverterTo(OutputUnit, InputUnit))
        /\ convert(Val(getConverterTo(OutputUnit, InputUnit)), Val(last)) = InputValue

\* C8: for every ordered pair (u, v) of units, u.getConverterTo(v) and
\* v.getConverterFrom(u) either both fail or both return converters that
\* compute the same function.
C8_ConverterToIsConverterFrom ==
    last.op = "getConverterTo" =>
        LET from == getConverterFrom(Argument, Receiver)
        IN  /\ IsOk(last) <=> IsOk(from)
            /\ (IsOk(last) /\ IsOk(from)) =>
                  \A value \in Values :
                      convert(Val(last), value) = convert(Val(from), value)

\* The units of the temperature example: celsius = get(kelvin, 1, -273.15)
Kelvin == UnitGetBase(1)

Celsius == Val(UnitGetAffine(Kelvin, Rat(1, 1), Rat(-27315, 100)))

CelsiusToKelvin == Val(getConverterTo(Celsius, Kelvin))

KelvinToCelsius == Val(getConverterTo(Kelvin, Celsius))

\* AffineUnitTest.Convert: celsius to kelvin and back
CelsiusExamples ==
    /\ convert(CelsiusToKelvin, Rat(-27315, 100)) = Rat(0, 1)
    /\ convert(CelsiusToKelvin, Rat(0, 1)) = Rat(27315, 100)
    /\ convert(KelvinToCelsius, Rat(0, 1)) = Rat(-27315, 100)

Meter == UnitGetBase(1)

Meter3Plus5 == Val(UnitGetAffine(Meter, Rat(3, 1), Rat(5, 1)))

Kilometer == Val(UnitGetAffine(Meter, Rat(1, 1000), Rat(0, 1)))

MeterToAffine == Val(getConverterTo(Meter, Meter3Plus5))

AffineToMeter == Val(getConverterTo(Meter3Plus5, Meter))

KilometerToMeter == Val(getConverterTo(Kilometer, Meter))

\* The conversions of the length examples
LengthExamples ==
    /\ convert(MeterToAffine, Rat(0, 1)) = Rat(5, 1)
    /\ convert(MeterToAffine, Rat(1, 1)) = Rat(8, 1)
    /\ convert(AffineToMeter, Rat(5, 1)) = Rat(0, 1)
    /\ convert(AffineToMeter, Rat(8, 1)) = Rat(1, 1)
    /\ convert(KilometerToMeter, Rat(2, 1)) = Rat(2000, 1)

RECURSIVE AffineUnitsValid(_)
\* Every affine unit in u, at any nesting, has a slope other than zero and is
\* not the identity transform
AffineUnitsValid(u) ==
    CASE u.kind = "A" ->
            /\ u.slope # Rat(0, 1)
            /\ ~(u.slope = Rat(1, 1) /\ u.intercept = Rat(0, 1))
            /\ AffineUnitsValid(u.core)
      [] u.kind = "R" -> AffineUnitsValid(u.refLevel)
      [] OTHER -> TRUE

OffsetOrLog(u) == isOffset(u) \/ u.kind \in {"R", "U"}

\* C12: multiply, divideBy and pow fail with a logic error and yield no unit
\* whenever the receiver or the argument is an offset affine unit or a
\* logarithmic unit of either variant.
C12_OffsetAndLogUnitsHaveNoAlgebra ==
    /\ (last.op \in {"multiply", "divideBy"}
            /\ (OffsetOrLog(Receiver) \/ OffsetOrLog(Argument))) =>
            last.err = "logic_error"
    /\ (last.op = "pow" /\ OffsetOrLog(Receiver)) => last.err = "logic_error"
    /\ \A u \in {x, y} :
        OffsetOrLog(u) =>
            /\ \A exp \in PowExps : pow(u, exp) = Fail("logic_error")
            /\ \A v \in {x, y} :
                /\ multiply(u, v) = Fail("logic_error")
                /\ multiply(v, u) = Fail("logic_error")
                /\ divideBy(u, v) = Fail("logic_error")
                /\ divideBy(v, u) = Fail("logic_error")

\* C12 witness: a canonical unit was to be divided by an offset affine unit
C12_DividedByOffsetUnit ==
    /\ last.op = "divideBy"
    /\ Receiver.kind = "C"
    /\ isOffset(Argument)
    /\ last.err = "logic_error"

RECURSIVE RefLevelsNotOffset(_)
\* No referenced logarithmic unit in u, at any nesting, has an offset reference level
RefLevelsNotOffset(u) ==
    CASE u.kind = "A" -> RefLevelsNotOffset(u.core)
      [] u.kind = "R" -> ~isOffset(u.refLevel) /\ RefLevelsNotOffset(u.refLevel)
      [] OTHER -> TRUE

\* C13: constructing a referenced logarithmic unit on an offset reference level
\* fails with a logic error and yields no unit, so the reference level of every
\* referenced logarithmic unit the program holds is not an offset unit.
C13_RefLevelNeverOffset ==
    /\ \A u \in {x, y} : RefLevelsNotOffset(u)
    /\ \A refLevel \in {x, y}, baseEnum \in LogBases :
        isOffset(refLevel) => RefLogUnit(refLevel, baseEnum) = Fail("logic_error")
    /\ (last.op = "getRefLog") => last.err = "logic_error" /\ (\E u \in {x, y} : isOffset(u))

\* C13 witness: the constructor has just refused an offset reference level while
\* a referenced logarithmic unit built earlier is held
C13_OffsetRefLevelRefused ==
    /\ last.op = "getRefLog"
    /\ last.err = "logic_error"
    /\ \E u \in {x, y} : u.kind = "R"
    /\ \E u \in {x, y} : isOffset(u)

\* C14: two referenced logarithmic units are convertible, asked in either
\* order and whatever their logarithmic bases, exactly when their reference
\* levels are convertible with each other.
C14_RefLogConvertibleIffRefLevels ==
    (last.op = "isConvertible" /\ Receiver.kind = "R" /\ Argument.kind = "R") =>
        LET levels == isConvertible(Receiver.refLevel, Argument.refLevel) = Ok(TRUE)
        IN  /\ last.err = "none"
            /\ Val(last) = levels
            /\ isConvertible(Argument, Receiver) = Ok(levels)

RECURSIVE Core(_)
\* The canonical unit under the affine wrappers of u
Core(u) == IF u.kind = "A" THEN Core(u.core) ELSE u

\* The last call was made on a referenced logarithmic unit and a unit of another kind
RefLogWithOther ==
    /\ last.op \in {"isConvertible", "getConverterTo"}
    /\ \/ Receiver.kind = "R" /\ Argument.kind # "R"
       \/ Receiver.kind # "R" /\ Argument.kind = "R"

\* The referenced logarithmic unit of that call and the other unit
RefLogOperand == IF Receiver.kind = "R" THEN Receiver ELSE Argument

OtherOperand == IF Receiver.kind = "R" THEN Argument ELSE Receiver

C16_UnrefLogConvertsOnlyWithUnrefLog ==
    /\ (last.op = "getConverterTo" /\ Receiver.kind = "U" /\ Argument.kind = "U") =>
            last.err = "none"
    /\ (last.op = "getConverterTo"
            /\ (Receiver.kind = "U") # (Argument.kind = "U")) =>
            last.err # "none"
    /\ (last.op = "convert" /\ ConvertOp = "getConverterTo"
            /\ InputUnit.kind = "U" /\ OutputUnit.kind = "U") =>
            Val(last) = NumMul(NumDiv(InputUnit.logBase, OutputUnit.logBase), InputValue)

\* The ExponentImpl objects some Exponent variable points to
LiveImpls == {x[y[h]] : h \in Handles}

\* Lowest terms over a positive denominator, zero being 0/1
InLowestTerms(e) ==
    /\ e.denom > 0
    /\ \A k \in 2 .. e.denom : ~(e.numer % k = 0 /\ e.denom % k = 0)
    /\ (e.numer = 0) => (e.denom = 1)

\* Exponent(n, d) is the rational n/d in lowest terms
ConstructedInLowestTerms ==
    \A n \in Numers, d \in Denoms \ {0} :
        /\ InLowestTerms(Exponent(n, d))
        /\ Exponent(n, d).numer * d = n * Exponent(n, d).denom

\* C17: every Exponent constructed from (n, d) with d # 0, and every Exponent
\* left by any sequence of add and multiply, is stored with a positive
\* denominator and a numerator and denominator without a common divisor; zero
\* is stored as 0/1.
C17_StoredInLowestTerms ==
    /\ \A e \in LiveImpls : InLowestTerms(e)
    /\ ConstructedInLowestTerms

\* C17 witness: an addition whose sum had to be reduced, the sum being smaller
\* than the product of the denominators
C17_SumReduced ==
    /\ last.op = "add"
    /\ LET before == last.arg[3]
           handles == last.arg[4]
       IN  x[Val(last)].denom <
               before[handles[last.arg[1]]].denom * before[handles[last.arg[2]]].denom

\* The Exponent compare was called on, and its argument, as they were at the call
ThisExponent == last.arg[3][last.arg[4][last.arg[1]]]

OtherExponent == last.arg[3][last.arg[4][last.arg[2]]]

\* C18: compare orders exponents by their rational value: a.compare(b) is
\* negative, zero or positive as the rational a is less than, equal to or
\* greater than the rational b.
C18_CompareOrdersByValue ==
    (last.op = "compare") =>
        sign(Val(last)) = sign(ThisExponent.numer * OtherExponent.denom
                               - OtherExponent.numer * ThisExponent.denom)

\* C18 amended: compare puts every non-negative exponent before every negative
\* one and orders two exponents of the same sign class by magnitude, so it
\* agrees with the order of the rational values when neither is negative and
\* reverses it when both are.
C18_CompareOrdersBySignThenMagnitude ==
    (last.op = "compare") =>
        LET a == ThisExponent
            b == OtherExponent
            byValue == sign(a.numer * b.denom - b.numer * a.denom)
        IN  /\ (a.numer >= 0 /\ b.numer >= 0) => Val(last) = byValue
            /\ (a.numer < 0 /\ b.numer < 0) => Val(last) = -byValue
            /\ (a.numer < 0 /\ b.numer >= 0) => Val(last) = 1
            /\ (a.numer >= 0 /\ b.numer < 0) => Val(last) = -1

\* C18 witness: a negative exponent was compared with a positive one and found
\* greater
C18_NegativeAfterPositive ==
    /\ last.op = "compare"
    /\ ThisExponent.numer < 0
    /\ OtherExponent.numer > 0
    /\ Val(last) = 1

\* ExponentTest.Comparison
ComparisonExamples ==
    /\ ExponentCompare(Exponent(1, 1), Exponent(1, 1)) = 0
    /\ ExponentCompare(Exponent(-1, 1), Exponent(-1, 1)) = 0
    /\ ExponentCompare(Exponent(1, 1), Exponent(-1, 1)) = -1
    /\ ExponentCompare(Exponent(-1, 1), Exponent(1, 1)) = 1
    /\ ExponentCompare(Exponent(2, 3), Exponent(2, 3)) = 0
    /\ ExponentCompare(Exponent(2, 3), Exponent(3, 4)) = -1
    /\ ExponentCompare(Exponent(3, 4), Exponent(2, 3)) = 1
    /\ ExponentCompare(Exponent(-2, 3), Exponent(3, 4)) = 1
    /\ ExponentCompare(Exponent(3, 4), Exponent(-2, 3)) = -1
    /\ ExponentCompare(Exponent(-2, 3), Exponent(-3, 4)) = -1
    /\ ExponentCompare(Exponent(-3, 4), Exponent(-2, 3)) = 1

\* C19: compare returns -1, 0 or 1, compare(a, b) = -compare(b, a), and 0
\* exactly for equal rationals; a non-negative exponent compares less than a
\* negative one, and two exponents of the same sign are ordered by magnitude,
\* as in compare(1, -1) = -1, compare(-2/3, 3/4) = 1, compare(2/3, 3/4) = -1
\* and compare(-2/3, -3/4) = -1.
C19_CompareAsTested ==
    /\ ComparisonExamples
    /\ (last.op = "compare") =>
        LET a == ThisExponent
            b == OtherExponent
            magnitudes == sign(abs(a.numer) * b.denom - abs(b.numer) * a.denom)
        IN  /\ Val(last) \in {-1, 0, 1}
            /\ Val(last) = -ExponentCompare(b, a)
            /\ (Val(last) = 0) <=> (a.numer * b.denom = b.numer * a.denom)
            /\ (a.numer >= 0 /\ b.numer < 0) => Val(last) = -1
            /\ (sign(a.numer) = sign(b.numer)) => Val(last) = magnitudes

\* C19 witness: compare(-2/3, 3/4) has returned 1
C19_MinusTwoThirdsWithThreeQuarters ==
    /\ last.op = "compare"
    /\ ThisExponent = Exponent(-2, 3)
    /\ OtherExponent = Exponent(3, 4)
    /\ Val(last) = 1

\* The store and the variables as they were when add or multiply was called
StoreBefore == last.arg[3]

HandlesBefore == last.arg[4]

\* C20: Exponent is an immutable value: add and multiply return a new value
\* and leave the receiver, the argument and every copy made of either with
\* the numerator and denominator they had before the call.
C20_ArithmeticLeavesOperands ==
    (last.op \in {"add", "multiply"} /\ last.err = "none") =>
        /\ \A h \in Handles : x[y[h]] = StoreBefore[HandlesBefore[h]]
        /\ \A h \in Handles : Val(last) # HandlesBefore[h]

\* C20 amended: add and multiply change the receiver where it is and return
\* the receiver itself: after the call the receiver, and with it every copy
\* of the receiver, holds the sum or the product, and the Exponent returned
\* shares the receiver's object; every Exponent that is not a copy of the
\* receiver, the argument among them, is as it was.  A multiply by n/0 fails
\* with a domain error and changes nothing.
C20_ArithmeticChangesReceiver ==
    (last.op \in {"add", "multiply"}) =>
        LET receiver == HandlesBefore[last.arg[1]]
            before == StoreBefore[receiver]
            result == IF last.op = "add"
                      THEN ExponentAdd(before, StoreBefore[HandlesBefore[last.arg[2]]])
                      ELSE ExponentMultiply(before, last.arg[2][1], last.arg[2][2])
        IN  /\ y = HandlesBefore
            /\ IF last.op = "multiply" /\ last.arg[2][2] = 0
               THEN last.err = "domain_error" /\ x = StoreBefore
               ELSE /\ last.err = "none"
                    /\ Val(last) = receiver
                    /\ \A h \in Handles :
                        x[y[h]] = IF y[h] = receiver THEN result
                                  ELSE StoreBefore[y[h]]

\* C20 witness: a.multiply(n, d) has changed the value of b, a copy of a
C20_CopyChanged ==
    /\ last.op = "multiply"
    /\ last.err = "none"
    /\ \E h \in Handles \ {last.arg[1]} :
        /\ HandlesBefore[h] = HandlesBefore[last.arg[1]]
        /\ x[y[h]] # StoreBefore[HandlesBefore[h]]

\* The place of a unit's kind in Canonical < Affine < RefLog < UnrefLog
KindRank(u) ==
    CASE u.kind = "C" -> 1
      [] u.kind = "A" -> 2
      [] u.kind = "R" -> 3
      [] u.kind = "U" -> 4

\* C26: for units a and b of different kinds a.compare(b) is negative when
\* the kind of a precedes the kind of b in Canonical < Affine < RefLog <
\* UnrefLog and positive otherwise, whatever the units hold.
C26_KindsOrdered ==
    (last.op = "compare" /\ Receiver.kind # Argument.kind) =>
        IF KindRank(Receiver) < KindRank(Argument) THEN Val(last) < 0 ELSE Val(last) > 0

\* C26 witness: a referenced logarithmic unit was compared with an affine unit
\* built on a different base unit and found greater
C26_RefLogAfterAffine ==
    /\ last.op = "compare"
    /\ Receiver.kind = "R"
    /\ Argument.kind = "A"
    /\ Receiver.refLevel # Argument.core
    /\ Val(last) > 0

\* C28: isConvertible is total and symmetric: for units u and v of any kinds
\* u.isConvertible(v) and v.isConvertible(u) return a boolean, raise no
\* error, and agree.
C28_IsConvertibleTotalSymmetric ==
    (last.op = "isConvertible") =>
        /\ last.err = "none"
        /\ isConvertible(Argument, Receiver) = Ok(Val(last))

\* The converter from u to the canonical unit under it maps 0 to 0
ZeroIsCanonicalZero(u) ==
    LET c == getConverterTo(u, Core(u))
    IN  IsOk(c) /\ convert(Val(c), Rat(0, 1)) = Rat(0, 1)

\* C29: a unit whose isOffset() is false has the zero of the canonical unit
\* under it, also when it is an affine unit of intercept 0 on another affine
\* unit; hence no referenced logarithmic unit stands on a reference level
\* whose zero is not the canonical zero.
C29_NotOffsetMeansCanonicalZero ==
    \A u \in {x, y} :
        /\ (AffineChain(u) /\ ~isOffset(u)) => ZeroIsCanonicalZero(u)
        /\ (u.kind = "R" /\ AffineChain(u.refLevel)) => ZeroIsCanonicalZero(u.refLevel)

(***************************************************************************)
(* Dimension and BaseInfo: the registries of names and symbols.            *)
(* x holds the four static sets, y the instances of the client: a          *)
(* destroyed instance keeps the name and the symbol it had.                *)
(***************************************************************************)
\* Instances of each class the client holds at a time
MaxLive == 2

Slots == 1 .. MaxLive

\* Strings passed to Dimension(name, symbol)
DimNames == {"", "Length", "Mass"}

DimSymbols == {"", "L", "M"}

\* Strings passed to BaseInfo(dim, name, symbol)
UnitNames == {"", "meter", "second"}

UnitSymbols == {"", "m", "s"}

\* Dimensionalities passed to BaseInfo(dim, name, symbol)
BaseInfoDims == {Dimensionality(1, Exponent(1, 1)), Dimensionality(1, Exponent(2, 1)),
                 Dimensionality(1, Exponent(0, 1))}

\* A variable of the client that never held an instance
NoInstance == [name |-> "", symbol |-> "", live |-> FALSE]

\* The outcome of a constructor and the static sets it leaves
Thrown(e, reg) == [err |-> e, val |-> reg]

Constructed(reg) == [err |-> "none", val |-> reg]

\* Dimension::Impl::Impl(name, symbol)
DimensionImpl(reg, name, symbol) ==
    IF name = "" THEN Thrown("invalid_argument", reg)
    ELSE IF symbol = "" THEN Thrown("invalid_argument", reg)
    ELSE LET inserted == [reg EXCEPT !.names = @ \cup {name}]
         IN  IF name \in reg.names THEN Thrown("invalid_argument", reg)
             ELSE IF symbol \in inserted.symbols THEN Thrown("invalid_argument", inserted)
             ELSE Constructed([inserted EXCEPT !.symbols = @ \cup {symbol}])

\* Dimension::Impl::~Impl
DimensionImplDestroy(reg, name, symbol) ==
    [reg EXCEPT !.names = @ \ {name}, !.symbols = @ \ {symbol}]

\* Dimension::Impl::clear
DimensionImplClear(reg) == [reg EXCEPT !.names = {}, !.symbols = {}]

\* Dimensionality::Impl::isBaseDim
isBaseDim(dim) == Len(dim) = 1 /\ isOne(dim[1][2])

\* BaseInfoImpl::BaseInfoImpl(dim, name, symbol)
BaseInfoImpl(reg, dim, name, symbol) ==
    IF ~isBaseDim(dim) THEN Thrown("invalid_argument", reg)
    ELSE IF name = "" THEN Thrown("invalid_argument", reg)
    ELSE IF symbol = "" THEN Thrown("invalid_argument", reg)
    ELSE IF name \in reg.nameSet THEN Thrown("invalid_argument", reg)
    ELSE IF symbol \in reg.symSet THEN Thrown("invalid_argument", reg)
    ELSE Constructed([reg EXCEPT !.nameSet = @ \cup {name}, !.symSet = @ \cup {symbol}])

\* BaseInfoImpl::~BaseInfoImpl
BaseInfoImplDestroy(reg, name, symbol) ==
    [reg EXCEPT !.nameSet = @ \ {name}, !.symSet = @ \ {symbol}]

\* The variable after a constructor call: it holds the new instance when the
\* constructor returned
Held(r, name, symbol) ==
    IF r.err = "none" THEN [name |-> name, symbol |-> symbol, live |-> TRUE]
    ELSE NoInstance

\* d = Dimension(name, symbol) for a variable that holds no instance
NewDimension ==
    /\ Idle
    /\ \E s \in Slots, name \in DimNames, symbol \in DimSymbols :
        LET r == DimensionImpl(x, name, symbol)
        IN  /\ ~y.dims[s].live
            /\ x' = r.val
            /\ y' = IF r.err = "none"
                    THEN [y EXCEPT !.dims[s] = Held(r, name, symbol)]
                    ELSE y
            /\ last' = [op |-> "Dimension", err |-> r.err, val |-> <<>>,
                        arg |-> <<name, symbol, x>>]

\* The last copy of a Dimension goes out of scope
DestroyDimension ==
    /\ Idle
    /\ \E s \in Slots :
        /\ y.dims[s].live
        /\ x' = DimensionImplDestroy(x, y.dims[s].name, y.dims[s].symbol)
        /\ y' = [y EXCEPT !.dims[s].live = FALSE]
        /\ last' = [op |-> "~Dimension", err |-> "none", val |-> <<>>,
                    arg |-> <<y.dims[s].name, y.dims[s].symbol, x>>]

\* Dimension::clear()
ClearDimensions ==
    /\ Idle
    /\ x' = DimensionImplClear(x)
    /\ UNCHANGED <<y, last>>

\* b = BaseInfo(dim, name, symbol) for a variable that holds no instance
NewBaseInfo ==
    /\ Idle
    /\ \E s \in Slots, dim \in BaseInfoDims, name \in UnitNames, symbol \in UnitSymbols :
        LET r == BaseInfoImpl(x, dim, name, symbol)
        IN  /\ ~y.infos[s].live
            /\ x' = r.val
            /\ y' = IF r.err = "none"
                    THEN [y EXCEPT !.infos[s] = Held(r, name, symbol)]
                    ELSE y
            /\ last' = [op |-> "BaseInfo", err |-> r.err, val |-> <<>>,
                        arg |-> <<name, symbol, x>>]

\* The last copy of a BaseInfo goes out of scope
DestroyBaseInfo ==
    /\ Idle
    /\ \E s \in Slots :
        /\ y.infos[s].live
        /\ x' = BaseInfoImplDestroy(x, y.infos[s].name, y.infos[s].symbol)
        /\ y' = [y EXCEPT !.infos[s].live = FALSE]
        /\ last' = [op |-> "~BaseInfo", err |-> "none", val |-> <<>>,
                    arg |-> <<y.infos[s].name, y.infos[s].symbol, x>>]

InitRegistry ==
    /\ x = [names |-> {}, symbols |-> {}, nameSet |-> {}, symSet |-> {}]
    /\ y = [dims |-> [s \in Slots |-> NoInstance], infos |-> [s \in Slots |-> NoInstance]]
    /\ last = NoCall

\* Constructions and destructions
NextRegistry ==
    \/ NewDimension
    \/ DestroyDimension
    \/ NewBaseInfo
    \/ DestroyBaseInfo
    \/ Discard

SpecRegistry == InitRegistry /\ [][NextRegistry]_vars

\* Dimension instances with calls of Dimension::clear() among them
NextDimension ==
    \/ NewDimension
    \/ DestroyDimension
    \/ ClearDimensions
    \/ Discard

SpecDimension == InitRegistry /\ [][NextDimension]_vars

\* No two live instances share a name or a symbol
Unique(insts) ==
    \A i \in Slots : \A j \in Slots \ {i} :
        (insts[i].live /\ insts[j].live) =>
            /\ insts[i].name # insts[j].name
            /\ insts[i].symbol # insts[j].symbol

\* No live instance has the name or the symbol
Unused(insts, name, symbol) ==
    \A i \in Slots : insts[i].live => (insts[i].name # name /\ insts[i].symbol # symbol)

\* The destroyed instances whose name and symbol no live instance has
Gone(insts) ==
    {i \in Slots : /\ ~insts[i].live
                   /\ insts[i].name # ""
                   /\ Unused(insts, insts[i].name, insts[i].symbol)}

\* C21: after any sequence of constructions, successful or failed, and
\* destructions of Dimension instances, and likewise of BaseInfo instances,
\* no two live instances have the same name or the same symbol, and a new
\* instance with the name and the symbol of a destroyed one can be constructed.
C21_UniqueAndReusable ==
    /\ Unique(y.dims)
    /\ Unique(y.infos)
    /\ \A i \in Gone(y.dims) :
        DimensionImpl(x, y.dims[i].name, y.dims[i].symbol).err = "none"
    /\ \A i \in Gone(y.infos) :
        BaseInfoImpl(x, Dimensionality(1, Exponent(1, 1)),
                     y.infos[i].name, y.infos[i].symbol).err = "none"

\* The parts of C21 the program keeps
C21_UniqueAndInfosReusable ==
    /\ Unique(y.dims)
    /\ Unique(y.infos)
    /\ (last.op = "~Dimension") =>
        DimensionImpl(x, last.arg[1], last.arg[2]).err = "none"
    /\ \A i \in Gone(y.infos) :
        BaseInfoImpl(x, Dimensionality(1, Exponent(1, 1)),
                     y.infos[i].name, y.infos[i].symbol).err = "none"

\* C22: a failed Dimension construction leaves the name registry and the
\* symbol registry as they were before the call.
C22_FailedConstructionLeavesRegistries ==
    (last.op = "Dimension" /\ last.err # "none") =>
        /\ x.names = last.arg[3].names
        /\ x.symbols = last.arg[3].symbols

\* C30: with calls of Dimension::clear() while instances are live, no two
\* live Dimension instances have the same name or symbol, and destroying an
\* instance unregisters no name or symbol of another live instance.
C30_UniqueAcrossClear ==
    /\ Unique(y.dims)
    /\ (last.op = "~Dimension") =>
        \A i \in Slots :
            y.dims[i].live =>
                /\ (y.dims[i].name \in last.arg[3].names) => (y.dims[i].name \in x.names)
                /\ (y.dims[i].symbol \in last.arg[3].symbols) => (y.dims[i].symbol \in x.symbols)

(***************************************************************************)
(* Dimensionality: factor maps over Exponent objects.  An Exponent is a    *)
(* shared_ptr to an ExponentImpl, so a factor holds the place of its       *)
(* ExponentImpl in the store x.impls, and a copied map holds the same      *)
(* places.  x.nameMap and x.symMap are the static maps of                  *)
(* Dimensionality::get, y the Dimensionality variables of the client.      *)
(***************************************************************************)
\* ExponentImpl objects alive at a time
MaxImpls == 3

Places == 1 .. MaxImpls

\* The Dimensionality variables of the client
DimVars == {"d", "e"}

\* Exponents passed to Dimensionality::pow
DimPows == {Exponent(-1, 1), Exponent(0, 1), Exponent(2, 1)}

\* std::string::compare on the names in use
NameCompare(name1, name2) ==
    LET rank(n) == CASE n = "" -> 0 [] n = "Length" -> 1 [] n = "Mass" -> 2
    IN  sign(rank(name1) - rank(name2))

\* The places no Exponent points to
FreePlaces(impls) == {p \in Places : impls[p] = Freed}

\* new ExponentImpl(...): the place the object gets
NewPlace(impls) == CHOOSE p \in FreePlaces(impls) : \A q \in FreePlaces(impls) : p <= q

\* The places the Exponents of a Dimensionality point to
PlacesOf(dim) == {dim[i].exp : i \in 1 .. Len(dim)}

\* shared_ptr: an ExponentImpl no Exponent points to is deleted
ReleaseImpls(impls, nameMap, symMap, dims) ==
    LET held == UNION ({PlacesOf(nameMap[n]) : n \in DOMAIN nameMap}
                       \cup {PlacesOf(symMap[s]) : s \in DOMAIN symMap}
                       \cup {PlacesOf(dims[v]) : v \in DOMAIN dims})
    IN  [p \in Places |-> IF p \in held THEN impls[p] ELSE Freed]

\* Dimensionality::Impl::Impl(name, symbol, exp)
DimensionalityImpl(impls, name, symbol, exp) ==
    IF isZero(impls[exp]) THEN <<>>
    ELSE <<[name |-> name, symbol |-> symbol, exp |-> exp]>>

\* Dimensionality::Impl::size
size(dim) == Len(dim)

\* Dimensionality::Impl::isBaseDim on the objects of the store
DimensionalityIsBaseDim(impls, dim) == size(dim) = 1 /\ isOne(impls[dim[1].exp])

RECURSIVE DimensionalityImplCompareFrom(_, _, _, _)
\* Dimensionality::Impl::compare: the loop from position i and the result
DimensionalityImplCompareFrom(impls, dim, other, i) ==
    IF i <= Len(dim) /\ i <= Len(other)
    THEN LET cmp1 == NameCompare(dim[i].name, other[i].name)
             cmp2 == ExponentCompare(impls[dim[i].exp], impls[other[i].exp])
         IN  IF cmp1 # 0 THEN cmp1
             ELSE IF cmp2 # 0 THEN cmp2
             ELSE DimensionalityImplCompareFrom(impls, dim, other, i + 1)
    ELSE IF i > Len(dim) /\ i > Len(other) THEN 0
    ELSE IF i > Len(dim) THEN -1
    ELSE 1

\* No two Dimensionalities differ
DimensionalityNeverDiffers(impls, dim, other) == 0

\* Dimensionality::Impl::compare
DimensionalityImplCompare(impls, dim, other) ==
    DimensionalityImplCompareFrom(impls, dim, other, 1)

\* factors.find(key): the position of the factor of that name, 0 for end()
FindDim(dim, name) ==
    IF \E i \in 1 .. Len(dim) : dim[i].name = name
    THEN CHOOSE i \in 1 .. Len(dim) : dim[i].name = name
    ELSE 0

\* factors.insert(factor) for a name the map does not hold: DimInfoLess
\* keeps the map in the order of the names
InsertDim(dim, factor) ==
    LET before == SelectSeq(dim, LAMBDA f : NameCompare(f.name, factor.name) < 0)
        after  == SelectSeq(dim, LAMBDA f : NameCompare(f.name, factor.name) > 0)
    IN  before \o <<factor>> \o after

RECURSIVE DimensionalityImplMultiplyFrom(_, _, _, _)
\* The loop of Dimensionality::Impl::multiply from factor i of the smaller
\* map: a new name is inserted with the Exponent it has, a name the new map
\* holds has the other exponent added to its ExponentImpl
DimensionalityImplMultiplyFrom(impls, newImpl, smaller, i) ==
    IF i > Len(smaller) THEN [impls |-> impls, val |-> newImpl]
    ELSE LET factor == smaller[i]
             iter   == FindDim(newImpl, factor.name)
         IN  IF iter = 0
             THEN DimensionalityImplMultiplyFrom(impls, InsertDim(newImpl, factor),
                                                 smaller, i + 1)
             ELSE DimensionalityImplMultiplyFrom(
                      AssignImpl(impls, newImpl[iter].exp,
                                 ExponentAdd(impls[newImpl[iter].exp], impls[factor.exp])),
                      newImpl, smaller, i + 1)

\* Dimensionality::Impl::multiply: the copy of the larger map holds the
\* Exponents of the larger map
DimensionalityImplMultiply(impls, dim, other) ==
    LET meLarger == size(dim) >= size(other)
    IN  DimensionalityImplMultiplyFrom(impls,
                                       IF meLarger THEN dim ELSE other,
                                       IF meLarger THEN other ELSE dim, 1)

RECURSIVE DimensionalityImplPowFrom(_, _, _, _, _)
\* The loop of Dimensionality::Impl::pow from factor i.  Exponent::multiply
\* (const Exponent&) either changes the ExponentImpl where it is, as
\* Exponent::multiply(int, int) does, or gives the Exponent a new one.
DimensionalityImplPowFrom(impls, newImpl, power, inPlace, i) ==
    IF i > Len(newImpl) THEN [impls |-> impls, val |-> newImpl]
    ELSE LET product == ExponentMultiplyBy(impls[newImpl[i].exp], power)
             place   == IF inPlace THEN newImpl[i].exp ELSE NewPlace(impls)
         IN  DimensionalityImplPowFrom(AssignImpl(impls, place, product),
                                       [newImpl EXCEPT ![i].exp = place],
                                       power, inPlace, i + 1)

\* Dimensionality::Impl::pow
DimensionalityImplPow(impls, dim, power, inPlace) ==
    DimensionalityImplPowFrom(impls, dim, power, inPlace, 1)

\* Dimensionality::divideBy
DimensionalityDivideBy(impls, dim, other, inPlace) ==
    LET inverse == DimensionalityImplPow(impls, other, Exponent(-1, 1), inPlace)
    IN  DimensionalityImplMultiply(inverse.impls, dim, inverse.val)

\* Dimensionality::get(name, symbol): the outcome, the Dimensionality
\* returned and the static maps and the store it leaves.  An entry of <<>>
\* stands for a key the map does not hold.
DimensionalityGet(reg, name, symbol) ==
    IF name = "" \/ symbol = ""
    THEN [err |-> "invalid_argument", val |-> <<>>, reg |-> reg]
    ELSE LET nameIter == reg.nameMap[name]
             symIter  == reg.symMap[symbol]
         IN  IF nameIter = <<>> /\ symIter = <<>>
             THEN LET place == NewPlace(reg.impls)
                      impls == AssignImpl(reg.impls, place, Exponent(1, 1))
                      dim   == DimensionalityImpl(impls, name, symbol, place)
                  IN  [err |-> "none", val |-> <<dim>>,
                       reg |-> [nameMap |-> [reg.nameMap EXCEPT ![name] = dim],
                                symMap  |-> [reg.symMap EXCEPT ![symbol] = dim],
                                impls   |-> impls]]
             ELSE IF \/ nameIter = <<>>
                     \/ symIter = <<>>
                     \/ DimensionalityImplCompare(reg.impls, nameIter, symIter) # 0
             THEN [err |-> "invalid_argument", val |-> <<>>, reg |-> reg]
             ELSE [err |-> "none", val |-> <<nameIter>>, reg |-> reg]

\* Every ExponentImpl of the store is one the model keeps
KeptImpls(impls) == \A p \in Places : KeptExponent(impls[p])

\* The state after the call: the variable holds what was returned
Returned(impls, v, dim) ==
    /\ KeptImpls(impls)
    /\ y' = [y EXCEPT ![v] = dim]
    /\ x' = [x EXCEPT !.impls = ReleaseImpls(impls, x.nameMap, x.symMap, y')]

\* v = Dimensionality::get(name, symbol)
GetDimensionality ==
    /\ Idle
    /\ FreePlaces(x.impls) # {}
    /\ \E v \in DimVars, name \in DimNames, symbol \in DimSymbols :
        LET r == DimensionalityGet(x, name, symbol)
        IN  /\ y' = IF r.err = "none" THEN [y EXCEPT ![v] = r.val[1]] ELSE y
            /\ x' = [r.reg EXCEPT !.impls = ReleaseImpls(@, r.reg.nameMap, r.reg.symMap, y')]
            /\ last' = [op |-> "get", err |-> r.err, val |-> r.val,
                        arg |-> <<name, symbol, x, y>>]

\* v = a.multiply(b)
MultiplyDimensionality ==
    /\ Idle
    /\ \E v \in DimVars, a \in DimVars, b \in DimVars :
        LET r == DimensionalityImplMultiply(x.impls, y[a], y[b])
        IN  /\ Returned(r.impls, v, r.val)
            /\ last' = [op |-> "multiply", err |-> "none", val |-> <<r.val>>,
                        arg |-> <<a, b, x, y, v>>]

\* v = a.divideBy(b)
DivideDimensionality ==
    /\ Idle
    /\ \E v \in DimVars, a \in DimVars, b \in DimVars, inPlace \in BOOLEAN :
        LET r == DimensionalityDivideBy(x.impls, y[a], y[b], inPlace)
        IN  /\ inPlace \/ Cardinality(FreePlaces(x.impls)) >= size(y[b])
            /\ Returned(r.impls, v, r.val)
            /\ last' = [op |-> "divideBy", err |-> "none", val |-> <<r.val>>,
                        arg |-> <<a, b, x, y, v>>]

\* v = a.pow(exp)
PowDimensionality ==
    /\ Idle
    /\ \E v \in DimVars, a \in DimVars, exp \in DimPows, inPlace \in BOOLEAN :
        LET r == DimensionalityImplPow(x.impls, y[a], exp, inPlace)
        IN  /\ inPlace \/ Cardinality(FreePlaces(x.impls)) >= size(y[a])
            /\ Returned(r.impls, v, r.val)
            /\ last' = [op |-> "pow", err |-> "none", val |-> <<r.val>>,
                        arg |-> <<a, exp, x, y, v>>]

\* Empty static maps; the variables are default constructed
InitDimensionality ==
    /\ x = [nameMap |-> [n \in DimNames \ {""} |-> <<>>],
            symMap  |-> [s \in DimSymbols \ {""} |-> <<>>],
            impls   |-> [p \in Places |-> Freed]]
    /\ y = [v \in DimVars |-> <<>>]
    /\ last = NoCall

NextDimensionality ==
    \/ GetDimensionality
    \/ MultiplyDimensionality
    \/ DivideDimensionality
    \/ PowDimensionality
    \/ Discard

SpecDimensionality == InitDimensionality /\ [][NextDimensionality]_vars

\* Dimensionality::get and Dimensionality::multiply alone
NextDimensionalityGet ==
    \/ GetDimensionality
    \/ MultiplyDimensionality
    \/ Discard

SpecDimensionalityGet == InitDimensionality /\ [][NextDimensionalityGet]_vars

\* The static maps and the store before the last call
RegistryBefore == last.arg[3]

\* The variables before the last call
DimsBefore == last.arg[4]

\* The key is in the map
Registered(map, key) == key # "" /\ map[key] # <<>>

\* The Dimensionality returned by the last call
Result == last.val[1]

\* C23: Dimensionality.get(name, symbol) registers and returns a new base
\* dimensionality if neither string is registered, returns the registered
\* one if both are registered to the same dimensionality, and in every
\* other case fails with invalid_argument and leaves both maps unchanged.
C23_GetRegistersReturnsOrRefuses ==
    (last.op = "get") =>
        LET name    == last.arg[1]
            symbol  == last.arg[2]
            nameMap == RegistryBefore.nameMap
            symMap  == RegistryBefore.symMap
        IN  IF name # "" /\ symbol # "" /\ ~Registered(nameMap, name)
                         /\ ~Registered(symMap, symbol)
            THEN /\ last.err = "none"
                 /\ size(Result) = 1
                 /\ Result[1].name = name
                 /\ Result[1].symbol = symbol
                 /\ x.impls[Result[1].exp] = Exponent(1, 1)
                 /\ RegistryBefore.impls[Result[1].exp] = Freed
                 /\ x.nameMap = [nameMap EXCEPT ![name] = Result]
                 /\ x.symMap = [symMap EXCEPT ![symbol] = Result]
            ELSE IF /\ Registered(nameMap, name)
                    /\ Registered(symMap, symbol)
                    /\ nameMap[name] = symMap[symbol]
            THEN /\ last.err = "none"
                 /\ Result = nameMap[name]
                 /\ x.nameMap = nameMap
                 /\ x.symMap = symMap
            ELSE /\ last.err = "invalid_argument"
                 /\ x.nameMap = nameMap
                 /\ x.symMap = symMap

\* get("Length", "M") is refused with both strings registered, each to its
\* own dimensionality
C23_RegisteredToDifferent ==
    /\ last.op = "get"
    /\ last.err = "invalid_argument"
    /\ Registered(RegistryBefore.nameMap, last.arg[1])
    /\ Registered(RegistryBefore.symMap, last.arg[2])
    /\ x.nameMap = RegistryBefore.nameMap
    /\ x.nameMap[last.arg[1]][1].symbol # last.arg[2]

\* The factors of a Dimensionality with the exponents they have in a store
FactorsOf(impls, dim) ==
    [i \in 1 .. Len(dim) |-> <<dim[i].name, impls[dim[i].exp]>>]

\* C24: after any sequence of multiply, divideBy and pow no Dimensionality
\* holds a factor with a zero exponent; d.divideBy(d) and d.pow(Exponent(0))
\* are the empty dimensionality.
C24_NoZeroExponentFactor ==
    /\ \A v \in DimVars : \A i \in 1 .. Len(y[v]) : ~isZero(x.impls[y[v][i].exp])
    /\ (last.op = "pow" /\ isZero(last.arg[2])) => size(Result) = 0
    /\ (last.op = "divideBy" /\ last.arg[1] = last.arg[2]) => size(Result) = 0

\* The variables that were operands of the last call and still hold them
OperandsHeld ==
    (IF last.op = "pow" THEN {last.arg[1]} ELSE {last.arg[1], last.arg[2]}) \ {last.arg[5]}

\* C25: multiply, divideBy and pow leave the receiver and the argument with
\* the factors and exponents they had before the call.
C25_OperandsUnchanged ==
    (last.op \in {"multiply", "divideBy", "pow"}) =>
        \A o \in OperandsHeld :
            FactorsOf(x.impls, y[o]) = FactorsOf(RegistryBefore.impls, DimsBefore[o])

\* C27: whatever was done with the values it returned, Dimensionality.get
\* for a registered pair returns a base dimensionality: one factor with
\* exponent one.
C27_GetReturnsBaseDimensionality ==
    (last.op = "get" /\ last.err = "none") => DimensionalityIsBaseDim(x.impls, Result)

====
